---- MODULE Spec2Model ----
(***************************************************************************)
(* Model of dbsake.core.mysql.sieve.defer: deferring InnoDB secondary      *)
(* indexes and foreign key constraints of a CREATE TABLE statement that    *)
(* sits in a dump section.                                                 *)
(*                                                                         *)
(* Text.  A byte string is a sequence of bytes, and a byte is a string:    *)
(*    - the one-character string of the byte, for the bytes that have one  *)
(*      in a string of this language: the printable ASCII bytes but the    *)
(*      backtick, and "\t", "\n", "\f", "\r";                              *)
(*    - "xNN", NN the byte's value in two upper-case hexadecimal digits,   *)
(*      for every other byte: "x60" is the backtick, "x0B" the vertical    *)
(*      tab, "xC3" and "xFF" bytes outside ASCII.                          *)
(* B("KEY ") is the byte string b'KEY ', Q("a") is b'`a`'.  A line is a    *)
(* byte string holding its terminator, the section's iterable is a         *)
(* sequence of lines.  The methods of the source (startswith, rstrip,      *)
(* strip, join, replace, in, splitlines, the three regular expressions,    *)
(* the utf8 decoder and the csv reader) work on the bytes.                 *)
(***************************************************************************)
EXTENDS Naturals, Sequences, FiniteSets, TLC

VARIABLES
    section,            \* section.iterable: the section's sequence of lines
    defer_constraints,  \* the argument of split_indexes
    original,           \* section.iterable as it was when the call started
    pc,                 \* "ready" | "returned" | "raised"
    result,             \* the bytes split_indexes returned
    error,              \* the place that raised: "" | "UnicodeDecodeError"
                        \*   | "csv.Error" | "list.remove" | "extract_table_name"
    log,                \* the records logged by debug() and warn(), in order
    table_ddl,          \* local table_ddl of split_indexes (line 119)
    indexes,            \* local indexes of split_indexes when the call ended
    constraints,        \* local constraints of split_indexes
    preserved_indexes,  \* local preserved_indexes of split_indexes
    patched_create_table \* local patched_create_table (line 148)

vars == <<section, defer_constraints, original, pc, result, error, log,
          table_ddl, indexes, constraints, preserved_indexes,
          patched_create_table>>

----------------------------------------------------------------------------
(* Bytes *)

\* the byte string of a string without backticks and bytes above ASCII
B(s) == [i \in 1..Len(s) |-> SubSeq(s, i, i)]

BackQuote == "x60"
NL == "\n"
CR == "\r"

\* the byte string of s between backticks
Q(s) == <<BackQuote>> \o B(s) \o <<BackQuote>>

\* the bytes bytes.strip() removes and \s matches in a bytes pattern
Whitespace == {" ", "\t", "\n", "\r", "x0B", "\f"}

IsSpace(b) == b \in Whitespace

Min(a, b) == IF a <= b THEN a ELSE b

\* the greatest and the least element of a non-empty set of positions
Greatest(S) == CHOOSE j \in S : \A j2 \in S : j2 <= j
Least(S) == CHOOSE i \in S : \A j \in S : i <= j

----------------------------------------------------------------------------
(* The byte-string methods the source uses *)

\* part occurs in value at position i
MatchAt(value, part, i) ==
    /\ i >= 1
    /\ i + Len(part) - 1 <= Len(value)
    /\ \A k \in 1..Len(part) : value[i + k - 1] = part[k]

\* value.startswith(prefix)
StartsWith(value, prefix) == MatchAt(value, prefix, 1)

\* value.endswith(suffix)
EndsWith(value, suffix) == MatchAt(value, suffix, Len(value) - Len(suffix) + 1)

\* the length of value[1..n] without its trailing bytes of chars
RECURSIVE RStripLen(_, _, _)
RStripLen(value, chars, n) ==
    IF n > 0 /\ value[n] \in chars THEN RStripLen(value, chars, n - 1) ELSE n

\* the number of bytes of chars value has from position i on
RECURSIVE LStripLen(_, _, _)
LStripLen(value, chars, i) ==
    IF i <= Len(value) /\ value[i] \in chars
    THEN 1 + LStripLen(value, chars, i + 1) ELSE 0

\* value.rstrip()
RStrip(value) == SubSeq(value, 1, RStripLen(value, Whitespace, Len(value)))

\* value.lstrip()
LStrip(value) ==
    SubSeq(value, LStripLen(value, Whitespace, 1) + 1, Len(value))

\* value.strip()
Strip(value) == LStrip(RStrip(value))

\* value.rstrip(b',')
RStripComma(value) == SubSeq(value, 1, RStripLen(value, {","}, Len(value)))

\* b''.join(parts)
RECURSIVE Join(_)
Join(parts) == IF parts = <<>> THEN <<>> ELSE Head(parts) \o Join(Tail(parts))

\* sep.join(parts)
RECURSIVE JoinWith(_, _)
JoinWith(sep, parts) ==
    IF parts = <<>> THEN <<>>
    ELSE IF Len(parts) = 1 THEN parts[1]
    ELSE parts[1] \o sep \o JoinWith(sep, Tail(parts))

\* needle in value
Contains(value, needle) ==
    \E i \in 1..(Len(value) - Len(needle) + 1) : MatchAt(value, needle, i)

\* the first position from i on that holds \r or \n, Len(value) + 1 if none
NextBreak(value, i) ==
    Least({j \in i..Len(value) : value[j] \in {CR, NL}} \cup {Len(value) + 1})

\* value.splitlines(keepends) from position i on: a line ends with \r\n,
\* \r or \n
RECURSIVE SplitFrom(_, _, _)
SplitFrom(value, keepends, i) ==
    IF i > Len(value) THEN <<>>
    ELSE LET j == NextBreak(value, i)
             e == IF j > Len(value) THEN Len(value)
                  ELSE IF value[j] = CR /\ j < Len(value) /\ value[j + 1] = NL
                  THEN j + 1
                  ELSE j
         IN  <<SubSeq(value, i, IF keepends THEN e ELSE j - 1)>>
             \o SplitFrom(value, keepends, e + 1)

SplitLines(value, keepends) == SplitFrom(value, keepends, 1)

\* the first position from i on where old occurs in value, 0 if none
Find(value, old, i) ==
    LET found == {j \in i..(Len(value) - Len(old) + 1) : MatchAt(value, old, j)}
    IN  IF found = {} THEN 0 ELSE Least(found)

\* value.replace(old, new) from position i on: every occurrence, left to
\* right, an occurrence starting after the end of the one before
RECURSIVE ReplaceFrom(_, _, _, _)
ReplaceFrom(value, old, new, i) ==
    LET j == Find(value, old, i)
    IN  IF j = 0 THEN SubSeq(value, i, Len(value))
        ELSE SubSeq(value, i, j - 1) \o new
             \o ReplaceFrom(value, old, new, j + Len(old))

\* value.replace(old, new); for an empty old, new goes before every byte
\* and after the last
Replace(value, old, new) ==
    IF old = <<>>
    THEN new \o Join([i \in 1..Len(value) |-> <<value[i]>> \o new])
    ELSE ReplaceFrom(value, old, new, 1)

----------------------------------------------------------------------------
(* extract_create_table *)

\* line 19: b'CREATE TABLE', without the space IDENT_CRE asks for after it
CreateTable == B("CREATE TABLE")

\* the for loop of extract_create_table from line i on; res is the list
\* built so far
RECURSIVE extract_loop(_, _, _)
extract_loop(iterable, i, res) ==
    IF i > Len(iterable) THEN res
    ELSE IF StartsWith(iterable[i], CreateTable)
         THEN extract_loop(iterable, i + 1, Append(res, iterable[i]))
         ELSE IF res # <<>>
              THEN IF EndsWith(RStrip(iterable[i]), B(";"))
                   THEN Append(res, iterable[i])
                   ELSE extract_loop(iterable, i + 1, Append(res, iterable[i]))
              ELSE extract_loop(iterable, i + 1, res)

extract_create_table(iterable) == Join(extract_loop(iterable, 1, <<>>))

----------------------------------------------------------------------------
(* The regular expressions *)

\* the first position from i on that holds \n (which . does not match),
\* Len(line) + 1 if none
NextNewline(line, i) ==
    Least({j \in i..Len(line) : line[j] = NL} \cup {Len(line) + 1})

\* what may follow the closing parenthesis of KEY_CRE:
\*   (?: USING (?:BTREE|HASH))?,?$   ($ matches before a final \n as well)
KeyTails ==
    {u \o c \o e : u \in {<<>>, B(" USING BTREE"), B(" USING HASH")},
                   c \in {<<>>, B(",")},
                   e \in {<<>>, <<NL>>}}

\* KEY_CRE.match(line):
\*   \s*(?:UNIQUE )?KEY (`.+`) \((.+)\)(?: USING (?:BTREE|HASH))?,?$
\* p is where the name opens, q where it closes, r the closing parenthesis;
\* both .+ are greedy: the last q that lets the rest match, then the last r
KEY_CRE(line) ==
    LET s == LStripLen(line, Whitespace, 1)
        u == IF MatchAt(line, B("UNIQUE "), s + 1) THEN s + 7 ELSE s
        p == u + 5
        head == MatchAt(line, B("KEY ") \o <<BackQuote>>, u + 1)
        stop == NextNewline(line, p)
        closes == {r \in (p + 1)..(stop - 1) :
                      /\ line[r] = ")"
                      /\ SubSeq(line, r + 1, Len(line)) \in KeyTails}
        ends == {q \in (p + 2)..(stop - 1) :
                    /\ line[q] = BackQuote
                    /\ MatchAt(line, B(" ("), q + 1)
                    /\ \E r \in closes : r >= q + 4}
        ok == head /\ ends # {}
        q == Greatest(ends)
        r == Greatest(closes)
    IN  [matched |-> ok,
         name |-> IF ok THEN SubSeq(line, p, q) ELSE <<>>,
         columns |-> IF ok THEN SubSeq(line, q + 3, r - 1) ELSE <<>>]

\* CONSTRAINT_CRE.match(line):
\*   ^\s*CONSTRAINT (`.+`) FOREIGN KEY \((.+)\) REFERENCES
CONSTRAINT_CRE(line) ==
    LET s == LStripLen(line, Whitespace, 1)
        p == s + 12
        head == MatchAt(line, B("CONSTRAINT ") \o <<BackQuote>>, s + 1)
        stop == NextNewline(line, p)
        closes == {r \in (p + 1)..(stop - 1) :
                      /\ line[r] = ")"
                      /\ MatchAt(line, B(" REFERENCES"), r + 1)}
        ends == {q \in (p + 2)..(stop - 1) :
                    /\ line[q] = BackQuote
                    /\ MatchAt(line, B(" FOREIGN KEY ("), q + 1)
                    /\ \E r \in closes : r >= q + 16}
        ok == head /\ ends # {}
        q == Greatest(ends)
        r == Greatest(closes)
    IN  [matched |-> ok,
         name |-> IF ok THEN SubSeq(line, p, q) ELSE <<>>,
         columns |-> IF ok THEN SubSeq(line, q + 15, r - 1) ELSE <<>>]

\* IDENT_CRE.match(line):
\*   CREATE TABLE .*`(.+)` \($
\* b is the backtick that closes the name, a the one that opens it; .* is
\* greedy: the last a that leaves the name a byte
IDENT_CRE(line) ==
    LET n == Len(line)
        head == MatchAt(line, B("CREATE TABLE "), 1)
        stop == NextNewline(line, 14)
        closes == {b \in 15..(stop - 1) :
                      /\ line[b] = BackQuote
                      /\ SubSeq(line, b + 1, n) \in {B(" ("), B(" (\n")}}
        b == Greatest(closes)
        opens == {a \in 14..(b - 2) : line[a] = BackQuote}
        ok == head /\ closes # {} /\ opens # {}
    IN  [matched |-> ok,
         name |-> IF ok THEN SubSeq(line, Greatest(opens) + 1, b - 1) ELSE <<>>]

----------------------------------------------------------------------------
(* parse_columns: the utf8 decoder and the csv reader *)

HexDigits == "0123456789ABCDEF"

HexValue(c) == CHOOSE v \in 0..15 : SubSeq(HexDigits, v + 1, v + 1) = c

\* the value of a byte written "xNN"; the bytes written as one character
\* are ASCII, which is all the decoder asks of them
Code(b) ==
    IF Len(b) = 3
    THEN 16 * HexValue(SubSeq(b, 2, 2)) + HexValue(SubSeq(b, 3, 3))
    ELSE 0

\* the byte at position i has a value in lo..hi
Continues(value, i, lo, hi) ==
    i >= 1 /\ i <= Len(value) /\ Code(value[i]) \in lo..hi

\* the bytes of the character a byte of value c begins, 0 when no character
\* begins with it
Utf8Width(c) ==
    IF c < 128 THEN 1
    ELSE IF c \in 194..223 THEN 2
    ELSE IF c \in 224..239 THEN 3
    ELSE IF c \in 240..244 THEN 4
    ELSE 0

\* value.decode('utf8') succeeds: every byte that is no continuation byte
\* begins a character that is complete, its second byte in the range its
\* first one allows, and every continuation byte belongs to the character
\* begun before it
utf8_valid(value) ==
    \A i \in 1..Len(value) :
        LET c == Code(value[i])
            w == Utf8Width(c)
        IN  IF c \in 128..191
            THEN \E k \in 1..3 :
                     /\ k < i
                     /\ Utf8Width(Code(value[i - k])) > k
                     /\ \A j \in 1..(k - 1) : Continues(value, i - j, 128, 191)
            ELSE /\ w > 0
                 /\ w >= 2 =>
                        Continues(value, i + 1,
                                  IF c = 224 THEN 160
                                  ELSE IF c = 240 THEN 144 ELSE 128,
                                  IF c = 237 THEN 159
                                  ELSE IF c = 244 THEN 143 ELSE 191)
                 /\ \A j \in 2..(w - 1) : Continues(value, i + j, 128, 191)

\* the mark the csv reader is given at the end of each line
EOL == "EOL"

\* csv.field_size_limit(): the most characters the reader takes in a field
field_size_limit == 131072

\* the characters of a field of utf8 text: its bytes but the continuation
\* bytes
CharLen(field) ==
    Cardinality({i \in 1..Len(field) : Code(field[i]) \notin 128..191})

\* what the csv reader (delimiter ",", quotechar `, doublequote, not strict,
\* skipinitialspace) in the given state does with c, a byte of a character
\* or EOL, and the state it goes to: "go" only changes the state, "save"
\* ends the field, "add" puts c in the field
csv_action(state, c) ==
    LET ends == c \in {NL, CR, EOL}
        after == IF c = EOL THEN "START_RECORD" ELSE "EAT_CRNL"
    IN  IF state = "START_RECORD" /\ c = EOL THEN <<"go", state>>
        ELSE IF state = "START_RECORD" /\ ends THEN <<"go", "EAT_CRNL">>
        ELSE IF state \in {"START_RECORD", "START_FIELD"}
        THEN IF ends THEN <<"save", after>>
             ELSE IF c = BackQuote THEN <<"go", "IN_QUOTED_FIELD">>
             ELSE IF c = " " THEN <<"go", "START_FIELD">>
             ELSE IF c = "," THEN <<"save", "START_FIELD">>
             ELSE <<"add", "IN_FIELD">>
        ELSE IF state = "IN_FIELD"
        THEN IF ends THEN <<"save", after>>
             ELSE IF c = "," THEN <<"save", "START_FIELD">>
             ELSE <<"add", "IN_FIELD">>
        ELSE IF state = "IN_QUOTED_FIELD"
        THEN IF c = EOL THEN <<"go", state>>
             ELSE IF c = BackQuote THEN <<"go", "QUOTE_IN_QUOTED_FIELD">>
             ELSE <<"add", "IN_QUOTED_FIELD">>
        ELSE IF state = "QUOTE_IN_QUOTED_FIELD"
        THEN IF c = BackQuote THEN <<"add", "IN_QUOTED_FIELD">>
             ELSE IF c = "," THEN <<"save", "START_FIELD">>
             ELSE IF ends THEN <<"save", after>>
             ELSE <<"add", "IN_FIELD">>
        ELSE \* EAT_CRNL
             IF c \in {NL, CR} THEN <<"go", state>>
             ELSE IF c = EOL THEN <<"go", "START_RECORD">>
             ELSE <<"error", state>>

\* the field holds field_size_limit characters and c begins another (the
\* reader is given whole characters: a continuation byte belongs to the
\* character its first byte has begun, which the field has taken)
field_full(field, c) ==
    /\ Len(field) >= field_size_limit
    /\ Code(c) \notin 128..191
    /\ CharLen(field) >= field_size_limit

\* the reader m (state, the field read so far, the fields saved, error)
\* after the action do on c; a character added to a full field is an error
csv_apply(m, c, do) ==
    IF do[1] = "go" THEN [m EXCEPT !.state = do[2]]
    ELSE IF do[1] = "save"
    THEN [m EXCEPT !.state = do[2], !.field = <<>>,
                   !.row = Append(m.row, m.field)]
    ELSE IF do[1] = "add" /\ ~field_full(m.field, c)
    THEN [m EXCEPT !.state = do[2], !.field = Append(m.field, c)]
    ELSE [m EXCEPT !.error = TRUE]

\* one step of the csv reader
csv_step(m, c) == csv_apply(m, c, csv_action(m.state, c))

\* the reader given EOL when a line of io.StringIO(value) has ended
csv_end_line(m, ended) ==
    IF ~m.error /\ ended THEN csv_step(m, EOL) ELSE m

\* the reader given the character at position i of value: io.StringIO(value)
\* hands it lines that end at \n, and the reader is given EOL after the
\* last character of each line
csv_feed(value, i, m) ==
    csv_end_line(csv_step(m, value[i]), value[i] = NL \/ i = Len(value))

\* the reader after the characters at positions lo..hi of value, one after
\* the other (the first half, then the second); an error ends the reading
RECURSIVE csv_run(_, _, _, _)
csv_run(value, lo, hi, m) ==
    IF lo > hi THEN m
    ELSE IF lo = hi THEN csv_feed(value, lo, m)
    ELSE LET mid == (lo + hi) \div 2
             m1 == csv_run(value, lo, mid, m)
         IN  IF m1.error THEN m1 ELSE csv_run(value, mid + 1, hi, m1)

\* the reader when the lines have run out: inside a quoted field, the field
\* is saved
csv_close(m) ==
    IF ~m.error /\ m.state = "IN_QUOTED_FIELD"
    THEN [m EXCEPT !.row = Append(m.row, m.field)]
    ELSE m

csv_reader(value) ==
    csv_close(csv_run(value, 1, Len(value),
                      [state |-> "START_RECORD", field |-> <<>>,
                       row |-> <<>>, error |-> FALSE]))

\* what parse_columns(value) raises: "" when it returns
parse_columns_raises(value) ==
    IF ~utf8_valid(value) THEN "UnicodeDecodeError"
    ELSE IF csv_reader(value).error THEN "csv.Error"
    ELSE ""

\* parse_columns(value): the fields of all rows
parse_columns(value) == csv_reader(value).row

----------------------------------------------------------------------------
(* extract_indexes, extract_constraints, extract_table_name *)

\* entries are the tuples (name, columns, line) of the source
RECURSIVE extract_indexes_loop(_)
extract_indexes_loop(lines) ==
    IF lines = <<>> THEN <<>>
    ELSE LET line == Head(lines)
             match == KEY_CRE(line)
         IN  (IF match.matched
              THEN << <<parse_columns(match.name)[1],
                        parse_columns(match.columns), line>> >>
              ELSE <<>>)
             \o extract_indexes_loop(Tail(lines))

extract_indexes(ddl) == extract_indexes_loop(SplitLines(ddl, TRUE))

RECURSIVE extract_constraints_loop(_)
extract_constraints_loop(lines) ==
    IF lines = <<>> THEN <<>>
    ELSE LET line == Head(lines)
             match == CONSTRAINT_CRE(line)
         IN  (IF match.matched
              THEN << <<parse_columns(match.name)[1],
                        parse_columns(match.columns), line>> >>
              ELSE <<>>)
             \o extract_constraints_loop(Tail(lines))

extract_constraints(ddl) == extract_constraints_loop(SplitLines(ddl, TRUE))

\* the exception raised first of two calls in a row, "" when both return
first_error(e1, e2) == IF e1 # "" THEN e1 ELSE e2

\* what lines 38-39 (54-55) raise for the match of a line: the exception of
\* parse_columns on the name or else on the column list
match_raises(match) ==
    IF match.matched
    THEN first_error(parse_columns_raises(match.name),
                     parse_columns_raises(match.columns))
    ELSE ""

\* what the loop of extract_indexes or extract_constraints raises, matches
\* being the results of its pattern on the lines: the first exception of
\* parse_columns, "" when there is none
RECURSIVE first_raise(_)
first_raise(matches) ==
    IF matches = <<>> THEN ""
    ELSE first_error(match_raises(Head(matches)), first_raise(Tail(matches)))

extract_indexes_raises(ddl) ==
    LET lines == SplitLines(ddl, TRUE)
    IN  first_raise([i \in 1..Len(lines) |-> KEY_CRE(lines[i])])

extract_constraints_raises(ddl) ==
    LET lines == SplitLines(ddl, TRUE)
    IN  first_raise([i \in 1..Len(lines) |-> CONSTRAINT_CRE(lines[i])])

\* extract_table_name: the name of the first matching line, or ValueError
extract_table_name(ddl) ==
    LET lines == SplitLines(ddl, FALSE)
        hits == {i \in 1..Len(lines) : IDENT_CRE(lines[i]).matched}
    IN  IF hits = {}
        THEN [raised |-> TRUE, name |-> <<>>]
        ELSE [raised |-> FALSE, name |-> IDENT_CRE(lines[Least(hits)]).name]

----------------------------------------------------------------------------
(* format_alter_table, format_create_table *)

stripped_lines(entries) == [i \in 1..Len(entries) |-> Strip(entries[i][3])]

\* the template of format_alter_table, joined with b'\n'
alter_template(table, lines) ==
    JoinWith(<<NL>>,
             << B("--"),
                B("-- InnoDB Fast Index Creation (generated by dbsake)"),
                B("--"),
                <<>>,
                B("ALTER TABLE ") \o <<BackQuote>> \o table \o <<BackQuote>>,
                B("  ADD ") \o JoinWith(<<NL>> \o B("  ADD "), lines) >>)

\* format_alter_table: the name is extracted first (line 80), the test for
\* nothing deferred comes second (line 82)
format_alter_table(ddl, entries) ==
    LET table == extract_table_name(ddl)
        lines == stripped_lines(entries)
    IN  IF table.raised THEN [raised |-> TRUE, value |-> <<>>]
        ELSE IF lines = <<>> THEN [raised |-> FALSE, value |-> <<>>]
        ELSE [raised |-> FALSE,
              value |-> RStripComma(alter_template(table.name, lines))
                        \o B(";")]

deferred_lines_of(entries) == {entries[i][3] : i \in 1..Len(entries)}

RECURSIVE format_create_loop(_, _, _)
format_create_loop(lines, deferred_lines, res) ==
    IF lines = <<>> THEN res
    ELSE LET line == Head(lines)
             r1 == IF res # <<>> /\ StartsWith(line, B(")"))
                   THEN [res EXCEPT ![Len(res)] =
                            Append(RStripComma(RStrip(@)), NL)]
                   ELSE res
             r2 == IF line \notin deferred_lines THEN Append(r1, line) ELSE r1
         IN  format_create_loop(Tail(lines), deferred_lines, r2)

\* a rewrite that drops the deferred lines and leaves the commas alone
RECURSIVE drop_deferred(_, _)
drop_deferred(lines, deferred_lines) ==
    IF lines = <<>> THEN <<>>
    ELSE (IF Head(lines) \in deferred_lines THEN <<>> ELSE Head(lines))
         \o drop_deferred(Tail(lines), deferred_lines)

format_create_table_nofix(ddl, entries) ==
    drop_deferred(SplitLines(ddl, TRUE), deferred_lines_of(entries))

format_create_table(ddl, entries) ==
    Join(format_create_loop(SplitLines(ddl, TRUE), deferred_lines_of(entries), <<>>))

----------------------------------------------------------------------------
(* split_indexes: the preservation resolver (lines 128-144) *)

\* list.remove(x): drops the first element equal to x
list_remove(list, x) ==
    LET i == CHOOSE j \in 1..Len(list) :
                 list[j] = x /\ \A j2 \in 1..(j - 1) : list[j2] # x
    IN  SubSeq(list, 1, i - 1) \o SubSeq(list, i + 1, Len(list))

\* x in list
InList(list, x) == \E j \in 1..Len(list) : list[j] = x

\* sorted(entries, key=lambda x: len(x[1])): stable, ascending column count
RECURSIVE sorted_from(_, _)
sorted_from(entries, n) ==
    IF \A i \in 1..Len(entries) : Len(entries[i][2]) < n THEN <<>>
    ELSE SelectSeq(entries, LAMBDA x : Len(x[2]) = n) \o sorted_from(entries, n + 1)

\* a sort by column count that is not stable: of the entries with as many
\* columns the later one comes first
sorted_latest_first(entries) ==
    sorted_from([i \in 1..Len(entries) |-> entries[Len(entries) + 1 - i]], 0)

sorted_by_columns(entries) == sorted_from(entries, 0)

\* columns[0:len(_columns)] == _columns
is_prefix_match(columns, _columns) ==
    SubSeq(columns, 1, Min(Len(_columns), Len(columns))) = _columns

\* the inner for loop (lines 134-139): the first entry of the sorted list
\* that matches, as a set of at most one preserved tuple
first_match(entries, constraint) ==
    LET order == sorted_by_columns(entries)
        hits == {i \in 1..Len(order) : is_prefix_match(order[i][2], constraint[2])}
    IN  IF hits = {} THEN {}
        ELSE LET i == Least(hits)
             IN  {<<order[i][1], order[i][2], order[i][3], constraint[1]>>}

\* the outer for loop (lines 129-139): every constraint is searched in the
\* whole list of indexes
resolve_preserved(entries, cons) ==
    UNION {first_match(entries, cons[c]) : c \in 1..Len(cons)}

\* the orders in which a for loop may visit a set
Orders(S) ==
    {o \in [1..Cardinality(S) -> S] : \A x \in S : \E i \in DOMAIN o : o[i] = x}

Warning(p) == [level |-> "warning", index |-> p[1], constraint |-> p[4]]

\* the loop of lines 141-144 over the preserved tuples in the given order:
\* warn, then remove; list.remove raises ValueError for a missing tuple
RECURSIVE remove_preserved(_, _, _)
remove_preserved(order, entries, lg) ==
    IF order = <<>> THEN [raised |-> FALSE, indexes |-> entries, log |-> lg]
    ELSE LET p == Head(order)
             x == <<p[1], p[2], p[3]>>
             lg1 == Append(lg, Warning(p))
         IN  IF ~InList(entries, x)
             THEN [raised |-> TRUE, indexes |-> entries, log |-> lg1]
             ELSE remove_preserved(Tail(order), list_remove(entries, x), lg1)

----------------------------------------------------------------------------
(* split_indexes: the rewrite (lines 148-152) *)

\* an engine test that lets MyISAM tables through as well
is_innodb_any_engine(ddl) ==
    Contains(ddl, B("ENGINE=InnoDB")) \/ Contains(ddl, B("ENGINE=MyISAM"))

\* line 121: b'ENGINE=InnoDB' in table_ddl
is_innodb(ddl) == Contains(ddl, B("ENGINE=InnoDB"))

\* the constraints joining the deferred entries whatever the flag says
with_constraints_always(entries, cons, defer) == entries \o cons

\* the constraints never joining the deferred entries
with_constraints_never(entries, cons, defer) == entries

\* lines 128 and 145-146: the constraints join the deferred entries only
\* when defer_constraints is set
with_constraints(entries, cons, defer) ==
    IF defer THEN entries \o cons ELSE entries

\* lines 149-151: the section's text with the DDL replaced by the patched DDL
rewrite_section(iterable, ddl, patched) ==
    SplitLines(Replace(Join(iterable), ddl, patched), TRUE)

----------------------------------------------------------------------------
(* The sections the model calls split_indexes on *)

MaxBody == 3

CreateNamed == CreateTable \o B(" ") \o Q("t") \o B(" (\n")
CreateBare == CreateTable \o B(" t (\n")
CreateNamedCRLF == CreateTable \o B(" ") \o Q("t") \o B(" (\r\n")
ColA == B("  ") \o Q("a") \o B(" INT,\n")
KeyA == B("  KEY ") \o Q("idx_a") \o B(" (") \o Q("a") \o B("),\n")
\* a second index on the column of KeyA
KeyA2 == B("  KEY ") \o Q("idx_a2") \o B(" (") \o Q("a") \o B("),\n")
KeyAB == B("  KEY ") \o Q("idx_ab") \o B(" (") \o Q("a") \o B(",") \o Q("b")
         \o B(")\n")
KeyABC == B("  UNIQUE KEY ") \o Q("idx_abc") \o B(" (") \o Q("a") \o B(",")
          \o Q("b") \o B(",") \o Q("c") \o B(") USING BTREE,\n")
FkA == B("  CONSTRAINT ") \o Q("fk_a") \o B(" FOREIGN KEY (") \o Q("a")
       \o B(") REFERENCES ") \o Q("other") \o B(" (") \o Q("id") \o B("),\n")
FkAB == B("  CONSTRAINT ") \o Q("fk_ab") \o B(" FOREIGN KEY (") \o Q("a")
        \o B(",") \o Q("b") \o B(") REFERENCES ") \o Q("other") \o B(" (")
        \o Q("id") \o B(",") \o Q("x") \o B(")\n")
FkB == B("  CONSTRAINT ") \o Q("fk_b") \o B(" FOREIGN KEY (") \o Q("b")
       \o B(") REFERENCES ") \o Q("other") \o B(" (") \o Q("id") \o B(")\n")
\* an index on a column whose name is no utf8 text
KeyLatin1 == B("  KEY ") \o Q("idx_e") \o B(" (") \o <<BackQuote, "xE9", BackQuote>>
             \o B("),\n")
CloseInnoDB == B(") ENGINE=InnoDB;\n")
CloseMyISAM == B(") ENGINE=MyISAM;\n")
CloseInnoDBCRLF == B(") ENGINE=InnoDB;\r\n")
CloseOpen == B(") ENGINE=InnoDB\n")
Lead == B("DROP TABLE IF EXISTS ") \o Q("t") \o B(";\n")
Trail == B("/*!40101 SET character_set_client = @saved_cs_client */;\n")

BodyLines == {ColA, KeyA, KeyA2, KeyAB, KeyABC, FkA, FkAB, FkB}

\* the lines between the CREATE TABLE line and the closing line: up to
\* MaxBody lines, no line twice (a table has no two clauses of one name)
Bodies ==
    {b \in UNION {[1..n -> BodyLines] : n \in 0..MaxBody} :
        \A i, j \in 1..Len(b) : b[i] = b[j] => i = j}

\* what surrounds the body lines: the lines before the CREATE TABLE line,
\* that line (and body lines every section of the frame has), the closing
\* line and the lines after it (each may be missing)
Frames ==
    {<< <<>>, <<CreateBare>>, <<CloseInnoDB>>, <<>> >>,
     << <<>>, <<CreateNamed>>, <<CloseMyISAM>>, <<>> >>,
     << <<>>, <<CreateNamed>>, <<>>, <<>> >>,
     << <<Lead>>, <<CreateNamed>>, <<CloseInnoDB>>, <<Trail>> >>,
     << <<Lead>>, <<CreateNamed>>, <<CloseOpen>>, <<Trail>> >>,
     << <<Lead>>, <<>>, <<CloseInnoDB>>, <<Trail>> >>,
     << <<>>, <<CreateNamedCRLF>>, <<CloseInnoDBCRLF>>, <<>> >>,
     << <<>>, <<CreateNamed, KeyLatin1>>, <<CloseInnoDB>>, <<>> >>}

Sections == {f[1] \o f[2] \o b \o f[3] \o f[4] : f \in Frames, b \in Bodies}

----------------------------------------------------------------------------
(* The state machine: one call of split_indexes on a section *)

Init ==
    /\ section \in Sections
    /\ defer_constraints \in BOOLEAN
    /\ original = section
    /\ pc = "ready"
    /\ result = <<>>
    /\ error = ""
    /\ log = <<>>
    /\ table_ddl = <<>>
    /\ indexes = <<>>
    /\ constraints = <<>>
    /\ preserved_indexes = {}
    /\ patched_create_table = <<>>

\* lines 118-124: the DDL does not hold ENGINE=InnoDB
SkipNonInnoDB ==
    /\ pc = "ready"
    /\ LET ddl == extract_create_table(section)
       IN  /\ ~is_innodb(ddl)
           /\ table_ddl' = ddl
    /\ section' = section
    /\ log' = Append(log, [level |-> "debug", index |-> <<>>, constraint |-> <<>>])
    /\ result' = <<>>
    /\ pc' = "returned"
    /\ UNCHANGED <<defer_constraints, original, error, indexes, constraints,
                   preserved_indexes, patched_create_table>>

\* lines 148-152 with the list of deferred entries and the log so far
Finish(ddl, entries, lg) ==
    LET patched == format_create_table(ddl, entries)
        alter == format_alter_table(ddl, entries)
    IN  /\ indexes' = entries
        /\ log' = lg
        /\ patched_create_table' = patched
        /\ section' = rewrite_section(section, ddl, patched)
        /\ IF alter.raised
           THEN /\ pc' = "raised"
                /\ error' = "extract_table_name"
                /\ result' = <<>>
           ELSE /\ pc' = "returned"
                /\ error' = ""
                /\ result' = alter.value

\* line 126 or line 127 ends in an exception of parse_columns: entries is
\* what line 126 has assigned to indexes; nothing has been changed yet
RaiseParseError(kind, entries) ==
    /\ pc' = "raised"
    /\ error' = kind
    /\ indexes' = entries
    /\ constraints' = <<>>
    /\ section' = section
    /\ UNCHANGED <<result, log, preserved_indexes, patched_create_table>>

\* lines 125-127: the exception the two extractions end in, "" if none
extraction_raises(ddl) ==
    first_error(extract_indexes_raises(ddl), extract_constraints_raises(ddl))

\* lines 118-152 with defer_constraints false
SplitKeepConstraints ==
    /\ pc = "ready"
    /\ ~defer_constraints
    /\ LET ddl == extract_create_table(section)
           ixs == extract_indexes(ddl)
           cons == extract_constraints(ddl)
           preserved == resolve_preserved(ixs, cons)
       IN  /\ is_innodb(ddl)
           /\ table_ddl' = ddl
           /\ IF extraction_raises(ddl) # ""
              THEN RaiseParseError(extraction_raises(ddl),
                                   IF extract_indexes_raises(ddl) = ""
                                   THEN ixs ELSE <<>>)
              ELSE /\ constraints' = cons
                   /\ preserved_indexes' = preserved
                   /\ \E order \in Orders(preserved) :
                        LET removed == remove_preserved(order, ixs, log)
                        IN  IF removed.raised
                            THEN /\ pc' = "raised"
                                 /\ error' = "list.remove"
                                 /\ indexes' = removed.indexes
                                 /\ log' = removed.log
                                 /\ section' = section
                                 /\ result' = <<>>
                                 /\ patched_create_table' = <<>>
                            ELSE Finish(ddl,
                                        with_constraints(removed.indexes, cons,
                                                         defer_constraints),
                                        removed.log)
    /\ UNCHANGED <<defer_constraints, original>>

\* lines 118-152 with defer_constraints true
SplitDeferConstraints ==
    /\ pc = "ready"
    /\ defer_constraints
    /\ LET ddl == extract_create_table(section)
           ixs == extract_indexes(ddl)
           cons == extract_constraints(ddl)
       IN  /\ is_innodb(ddl)
           /\ table_ddl' = ddl
           /\ IF extraction_raises(ddl) # ""
              THEN RaiseParseError(extraction_raises(ddl),
                                   IF extract_indexes_raises(ddl) = ""
                                   THEN ixs ELSE <<>>)
              ELSE /\ constraints' = cons
                   /\ preserved_indexes' = preserved_indexes
                   /\ Finish(ddl, with_constraints(ixs, cons, defer_constraints),
                             log)
    /\ UNCHANGED <<defer_constraints, original>>

Next == SkipNonInnoDB \/ SplitKeepConstraints \/ SplitDeferConstraints

Spec == Init /\ [][Next]_vars

----------------------------------------------------------------------------
(* Vocabulary of the properties *)

\* the call has ended, by a return or by an exception
Called == pc # "ready"

\* the call ended in an exception of parse_columns, before anything was
\* resolved or rewritten
ParseError == error \in {"UnicodeDecodeError", "csv.Error"}

\* the call got to line 148: the patched statement was written to the section
Rewritten == pc = "returned" \/ error = "extract_table_name"

\* the extracted DDL declares ENGINE=InnoDB
DeclaresInnoDB == Contains(table_ddl, B("ENGINE=InnoDB"))

\* the lines of the extracted DDL and the indexes extracted from it
DdlLines == SplitLines(table_ddl, TRUE)
IndexEntries == extract_indexes(table_ddl)

\* the lines of the patched CREATE TABLE statement
PatchedLines == SplitLines(patched_create_table, TRUE)

\* the patched statement is what the section holds in the place of the DDL
WrittenBack == Contains(Join(section), patched_create_table)

\* cols has ccols as its leading columns, position by position
HasLeadingPrefix(cols, ccols) ==
    /\ Len(cols) >= Len(ccols)
    /\ \A k \in 1..Len(ccols) : cols[k] = ccols[k]

\* a line as it reads once it has become the last line before the closing
\* parenthesis: trailing blanks and commas gone
WithoutComma(line) == Append(RStripComma(RStrip(line)), NL)

\* the line is in the patched statement, as it was or without its trailing
\* comma
InPatched(line) ==
    LET lines == PatchedLines
    IN  InList(lines, line) \/ InList(lines, WithoutComma(line))

\* the clauses after "  ADD " in the returned statement, in order
RECURSIVE add_clauses(_)
add_clauses(lines) ==
    IF lines = <<>> THEN <<>>
    ELSE (IF StartsWith(Head(lines), B("  ADD "))
          THEN <<SubSeq(Head(lines), 7, Len(Head(lines)))>> ELSE <<>>)
         \o add_clauses(Tail(lines))

AddClauses == add_clauses(SplitLines(result, FALSE))

\* the clauses an ALTER TABLE deferring the entries holds: the stripped
\* lines, the last one with its comma replaced by the terminator
ExpectedClauses(entries) ==
    [i \in 1..Len(entries) |->
        IF i < Len(entries) THEN Strip(entries[i][3])
        ELSE RStripComma(Strip(entries[i][3])) \o B(";")]

\* kept lines as a valid statement holds them: the one before a closing
\* parenthesis without its comma
CommaFixed(kept) ==
    [i \in 1..Len(kept) |->
        IF i < Len(kept) /\ StartsWith(kept[i + 1], B(")"))
        THEN WithoutComma(kept[i]) ELSE kept[i]]

\* no line before a line that starts with a closing parenthesis ends with a
\* comma
NoCommaBeforeClose(lines) ==
    \A i \in 2..Len(lines) :
        StartsWith(lines[i], B(")")) => ~EndsWith(RStrip(lines[i - 1]), B(","))

\* the DDL the call was given has no comma right before a closing
\* parenthesis, as in any statement a server accepts
NoDanglingComma == NoCommaBeforeClose(DdlLines)

NoWarning == \A i \in 1..Len(log) : log[i].level # "warning"

IndexOf(p) == <<p[1], p[2], p[3]>>

----------------------------------------------------------------------------
(* C3 *)

\* C3: for a section whose extracted DDL does not declare ENGINE=InnoDB (a
\* section without CREATE TABLE included) the call returns the empty result
\* and the section's lines are the lines it had before, whatever
\* defer_constraints is.
C3_NonInnoDBUntouched ==
    (Called /\ ~DeclaresInnoDB) =>
        /\ pc = "returned"
        /\ result = <<>>
        /\ section = original
        /\ NoWarning

\* a MyISAM table with a KEY line went through the call with defer_constraints set
C3_Witness ==
    /\ pc = "returned"
    /\ defer_constraints
    /\ Contains(table_ddl, B("ENGINE=MyISAM"))
    /\ IndexEntries # <<>>
    /\ section = original

----------------------------------------------------------------------------
(* C1 *)

\* no extracted index has the constraint's columns as its leading columns
Unsatisfied(c) ==
    LET extracted == IndexEntries
    IN  \A i \in 1..Len(extracted) : ~HasLeadingPrefix(extracted[i][2], c[2])

\* C1 as stated: with defer_constraints false, a constraint that no index
\* satisfies is deferred with the indexes: its line is gone from the patched
\* CREATE TABLE and is an ADD clause of the returned ALTER TABLE.
C1_UnsatisfiedConstraintDeferred ==
    (pc = "returned" /\ ~defer_constraints /\ DeclaresInnoDB) =>
        \A i \in 1..Len(constraints) :
            Unsatisfied(constraints[i]) =>
                /\ ~InPatched(constraints[i][3])
                /\ \E j \in 1..Len(AddClauses) :
                       AddClauses[j] \in
                           {Strip(constraints[i][3]),
                            RStripComma(Strip(constraints[i][3])) \o B(";")}

\* C1 amended: with defer_constraints false no constraint is deferred,
\* satisfied by an index or not: the deferred entries are index entries
\* only, no ADD clause of the returned statement is a CONSTRAINT clause,
\* and once the patched CREATE TABLE is written every constraint line is
\* still in it (at most its trailing comma removed).
C1_ConstraintsStayInPlace ==
    (Called /\ ~defer_constraints /\ DeclaresInnoDB) =>
        LET extracted == IndexEntries
        IN  /\ \A i \in 1..Len(indexes) : InList(extracted, indexes[i])
            /\ \A j \in 1..Len(AddClauses) :
                   ~StartsWith(AddClauses[j], B("CONSTRAINT "))
            /\ Rewritten =>
                   /\ WrittenBack
                   /\ \A i \in 1..Len(constraints) : InPatched(constraints[i][3])

\* KEY idx_a (a) with CONSTRAINT fk_b FOREIGN KEY (b): idx_a was deferred
\* and fk_b, which no index satisfies, stayed
C1_Witness ==
    /\ pc = "returned"
    /\ ~defer_constraints
    /\ IndexEntries = << <<B("idx_a"), <<B("a")>>, KeyA>> >>
    /\ constraints = << <<B("fk_b"), <<B("b")>>, FkB>> >>
    /\ Unsatisfied(constraints[1])
    /\ indexes = IndexEntries
    /\ InPatched(FkB)
    /\ ~InPatched(KeyA)
    /\ InList(section, FkB)
    /\ ~InList(section, KeyA)
    /\ Len(AddClauses) = 1

----------------------------------------------------------------------------
(* C2 *)

\* C2 as stated: when no line of an InnoDB DDL yields a table name the call
\* ends in an error and the section holds the lines it had before the call
\* (checked on DDL whose clauses parse and that has no dangling comma, so
\* that a difference is a removed index or constraint line).
C2_AbortLeavesSection ==
    (Called /\ DeclaresInnoDB /\ ~ParseError /\ NoDanglingComma
        /\ extract_table_name(table_ddl).raised) =>
        /\ pc = "raised"
        /\ section = original

----------------------------------------------------------------------------
(* C4 *)

\* the first place of an index entry in the DDL
PlaceOf(entry) ==
    LET extracted == IndexEntries
    IN  CHOOSE i \in 1..Len(extracted) :
            /\ extracted[i] = entry
            /\ \A j \in 1..(i - 1) : extracted[j] # entry

IndexLinesDistinct ==
    LET extracted == IndexEntries
    IN  \A i, j \in 1..Len(extracted) :
            extracted[i][3] = extracted[j][3] => i = j

\* C4: with defer_constraints false, an index preserved for a constraint has
\* the constraint's columns as its leading columns (so it has at least as
\* many columns), no qualifying index has fewer columns, and none with as
\* many columns comes earlier in the DDL; once the patched CREATE TABLE is
\* written, the index lines left in it are those of the preserved indexes.
C4_PrefixPolicy ==
    (Called /\ ~defer_constraints /\ DeclaresInnoDB /\ ~ParseError) =>
        LET extracted == IndexEntries
        IN  /\ \A p \in preserved_indexes :
                   /\ InList(extracted, IndexOf(p))
                   /\ \E c \in 1..Len(constraints) :
                          /\ constraints[c][1] = p[4]
                          /\ HasLeadingPrefix(p[2], constraints[c][2])
                          /\ \A i \in 1..Len(extracted) :
                                 HasLeadingPrefix(extracted[i][2],
                                                  constraints[c][2]) =>
                                     \/ Len(p[2]) < Len(extracted[i][2])
                                     \/ /\ Len(p[2]) = Len(extracted[i][2])
                                        /\ PlaceOf(IndexOf(p)) <= i
            /\ (Rewritten /\ IndexLinesDistinct) =>
                   \A i \in 1..Len(extracted) :
                       InPatched(extracted[i][3]) <=>
                           \E p \in preserved_indexes : IndexOf(p) = extracted[i]

\* a constraint on (a, b) with indexes on (a) and on (a, b, c): the index on
\* (a, b, c) was preserved and the one on (a) deferred
C4_Witness ==
    /\ pc = "returned"
    /\ ~defer_constraints
    /\ preserved_indexes =
           {<<B("idx_abc"), <<B("a"), B("b"), B("c")>>, KeyABC, B("fk_ab")>>}
    /\ indexes = << <<B("idx_a"), <<B("a")>>, KeyA>> >>
    /\ InPatched(KeyABC)
    /\ ~InPatched(KeyA)
    /\ InList(section, KeyABC)
    /\ ~InList(section, KeyA)

----------------------------------------------------------------------------
(* C5 *)

IsIndexLine(line) == KEY_CRE(line).matched

\* C5: for an InnoDB DDL with N index clauses (that parse) and no
\* constraint, with defer_constraints false: the patched CREATE TABLE, which
\* the section holds, is the DDL's lines that are no index lines, in their
\* order, the one before a closing parenthesis without its comma; no line
\* of it before a line starting with ")" ends with a comma; and the
\* returned statement has exactly N ADD clauses, the stripped index lines in
\* their order (the last one closed by the terminator).
C5_RoundTrip ==
    (Called /\ ~defer_constraints /\ DeclaresInnoDB /\ ~ParseError
        /\ extract_constraints(table_ddl) = <<>>) =>
        LET extracted == IndexEntries
        IN  /\ Rewritten
            /\ WrittenBack
            /\ PatchedLines =
                   CommaFixed(SelectSeq(DdlLines, LAMBDA l : ~IsIndexLine(l)))
            /\ NoCommaBeforeClose(PatchedLines)
            /\ pc = "returned" =>
                   /\ Len(AddClauses) = Len(extracted)
                   /\ AddClauses = ExpectedClauses(extracted)

\* a column line ending with a comma followed by two index lines: both were
\* deferred and the column line lost its comma
C5_Witness ==
    /\ pc = "returned"
    /\ ~defer_constraints
    /\ extract_constraints(table_ddl) = <<>>
    /\ DdlLines = <<CreateNamed, ColA, KeyA, KeyAB, CloseInnoDB>>
    /\ PatchedLines = <<CreateNamed, WithoutComma(ColA), CloseInnoDB>>
    /\ Len(AddClauses) = 2
    /\ InList(section, WithoutComma(ColA))
    /\ ~InList(section, ColA)

----------------------------------------------------------------------------
(* C6 *)

\* C6 as stated: for an InnoDB DDL without KEY and CONSTRAINT clauses the
\* call returns the empty result, with or without a table name in the DDL,
\* and the section is left as it was (checked on DDL without a dangling
\* comma, where the rewrite has nothing to change).
C6_NoClausesNoChange ==
    (Called /\ DeclaresInnoDB /\ NoDanglingComma
        /\ IndexEntries = <<>> /\ extract_constraints(table_ddl) = <<>>) =>
        /\ pc = "returned"
        /\ result = <<>>
        /\ section = original

----------------------------------------------------------------------------
(* C7 *)

\* C7: with defer_constraints true, for an InnoDB DDL whose clauses parse:
\* nothing is preserved and no warning is logged, list.remove is never
\* reached, the deferred entries are the indexes followed by the
\* constraints, none of their lines is left in the patched CREATE TABLE,
\* which the section holds, and the returned statement has one ADD clause
\* per index and per constraint, the indexes first.
C7_DeferAll ==
    (Called /\ defer_constraints /\ DeclaresInnoDB /\ ~ParseError) =>
        LET extracted == IndexEntries
        IN  /\ preserved_indexes = {}
            /\ NoWarning
            /\ Rewritten
            /\ WrittenBack
            /\ indexes = extracted \o constraints
            /\ constraints = extract_constraints(table_ddl)
            /\ \A i \in 1..Len(indexes) : ~InPatched(indexes[i][3])
            /\ pc = "returned" =>
                   AddClauses = ExpectedClauses(extracted \o constraints)

\* a constraint that an index satisfies, written before two indexes: all
\* three were deferred, the indexes first
C7_Witness ==
    /\ pc = "returned"
    /\ defer_constraints
    /\ DdlLines = <<CreateNamed, FkA, KeyA, KeyAB, CloseInnoDB>>
    /\ PatchedLines = <<CreateNamed, CloseInnoDB>>
    /\ section = <<Lead, CreateNamed, CloseInnoDB, Trail>>
    /\ AddClauses = <<Strip(KeyA), Strip(KeyAB), RStripComma(Strip(FkA)) \o B(";")>>

----------------------------------------------------------------------------
(* C8 *)

\* C8 as stated: an index is out of the candidates once it is preserved, so
\* no index is recorded as preserved for more than one constraint.
C8_PreservedForOneConstraint ==
    \A p1, p2 \in preserved_indexes : IndexOf(p1) = IndexOf(p2) => p1 = p2

----------------------------------------------------------------------------
(* C9 *)

\* C9 as stated: with defer_constraints false the call returns for every
\* InnoDB DDL that yields a table name, also when two constraints have the
\* same index as their first match (checked on DDL whose clauses parse).
C9_OnlyTableNameRaises ==
    (Called /\ ~defer_constraints /\ DeclaresInnoDB /\ ~ParseError
        /\ ~extract_table_name(table_ddl).raised) =>
        pc = "returned"

----------------------------------------------------------------------------
(* C10 *)

CreateLines == {i \in 1..Len(original) : StartsWith(original[i], CreateTable)}

\* the lines after line i that end a statement
TerminatorsAfter(i) ==
    {j \in (i + 1)..Len(original) : EndsWith(RStrip(original[j]), B(";"))}

\* C10 as stated: the extracted DDL is the lines from the first CREATE TABLE
\* line through the first later line ending with ";", and it is empty when
\* the section has no CREATE TABLE line or no such later line; so a DDL that
\* is not empty begins with CREATE TABLE and ends with ";".
C10_TerminatedRunOrEmpty ==
    Called =>
        /\ table_ddl =
               IF CreateLines # {} /\ TerminatorsAfter(Least(CreateLines)) # {}
               THEN Join(SubSeq(original, Least(CreateLines),
                                Least(TerminatorsAfter(Least(CreateLines)))))
               ELSE <<>>
        /\ table_ddl # <<>> =>
               /\ StartsWith(table_ddl, CreateTable)
               /\ EndsWith(RStrip(table_ddl), B(";"))

====
